---------------------------- MODULE Spec2Model ----------------------------
(***************************************************************************)
(* PolicyService (the policy store of the insurance-policy demo app): an   *)
(* in-memory signal holding the list of policies, a next-id counter, and    *)
(* a mirror of both in localStorage written by an Angular effect.           *)
(*                                                                         *)
(* A localStorage value is a string; it is modelled as the sequence of its *)
(* tokens: JSON.stringify / JSON.parse and toString / parseInt are modelled *)
(* as the conversions they are, between values and token sequences.        *)
(***************************************************************************)
EXTENDS Integers, Sequences, FiniteSets, TLC

(***************************************************************************)
(* Bounds of the exploration.                                              *)
(***************************************************************************)
\* Number of store calls (add, update, delete, clear) in one run.
MaxCalls == 5
\* The same, in the runs with more starting contents, callers or arguments.
MaxMediumCalls == 3
\* The same, in the runs driven through the list and the form.
MaxPageCalls == 4

(***************************************************************************)
(* JavaScript values.                                                      *)
(***************************************************************************)
\* The number NaN and the value null, encoded as integers outside the range
\* of every id, counter and amount of the model.
NaN == -999999
JsNull == -999998

\* a === b on numbers: NaN is equal to nothing, itself included.
StrictEquals(a, b) == a # NaN /\ b # NaN /\ a = b

\* Variant of Increment: the counter is read and not advanced.
IncrementForgotten(n) == n

\* The value of n + 1 as computed by nextId++.
Increment(n) == IF n = NaN THEN NaN ELSE n + 1

STORAGE_KEY == "insurance_policies"
NEXT_ID_KEY == "insurance_policies_next_id"
Keys == {STORAGE_KEY, NEXT_ID_KEY}

\* The InsurancePolicy objects a caller passes to the store.  The id is the
\* caller's (the form's id control defaults to 1); the other fields take the
\* two sets of values of the policy-editing test.
Payloads ==
    { [policyNumber |-> "POL-EDIT", customerName |-> "John Doe",
       startDate |-> "2024-01-01", endDate |-> "2024-12-31",
       premiumAmount |-> 1500],
      [policyNumber |-> "POL-EDITED", customerName |-> "Jane Doe",
       startDate |-> "2024-02-01", endDate |-> "2025-01-31",
       premiumAmount |-> 2500] }

InsurancePolicy(id, d) ==
    [id |-> id, policyNumber |-> d.policyNumber, customerName |-> d.customerName,
     startDate |-> d.startDate, endDate |-> d.endDate,
     premiumAmount |-> d.premiumAmount]

\* Ids a caller names: every id the store can have assigned within MaxCalls
\* calls; the largest of them is never in the collection when it is used.
CallerIds == 1..MaxCalls

CallerPolicies == { InsurancePolicy(id, d) : id \in CallerIds, d \in Payloads }

\* Placeholder in the call record of a call that takes no policy.
NoPolicy ==
    [id |-> 0, policyNumber |-> "", customerName |-> "", startDate |-> "",
     endDate |-> "", premiumAmount |-> 0]

(***************************************************************************)
(* Number <-> string.                                                      *)
(***************************************************************************)
Digits == <<"0", "1", "2", "3", "4", "5", "6", "7", "8", "9">>
IsDigit(c) == \E d \in 1..10 : Digits[d] = c
DigitValue(c) == (CHOOSE d \in 1..10 : Digits[d] = c) - 1

RECURSIVE NatToString(_)
NatToString(n) ==
    IF n < 10 THEN <<Digits[n + 1]>>
    ELSE NatToString(n \div 10) \o <<Digits[(n % 10) + 1]>>

\* Number.prototype.toString(): the decimal digits, "NaN" for NaN.
NumberToString(n) ==
    IF n = NaN THEN <<"NaN">>
    ELSE IF n < 0 THEN <<"-">> \o NatToString(0 - n)
    ELSE NatToString(n)

RECURSIVE ReadDigits(_, _, _)
ReadDigits(t, i, acc) ==
    IF i <= Len(t) /\ IsDigit(t[i])
    THEN ReadDigits(t, i + 1, acc * 10 + DigitValue(t[i]))
    ELSE [value |-> acc, next |-> i]

\* Number.parseInt(s, 10): an optional sign, then the longest run of digits;
\* what follows is ignored, and NaN when there is no digit.
ParseInt(t) ==
    LET signed == Len(t) >= 1 /\ t[1] \in {"-", "+"}
        start == IF signed THEN 2 ELSE 1
        r == ReadDigits(t, start, 0)
    IN  IF r.next = start THEN NaN
        ELSE IF signed /\ t[1] = "-" THEN 0 - r.value
        ELSE r.value

(***************************************************************************)
(* JSON.stringify and JSON.parse on arrays of InsurancePolicy objects.     *)
(* The text is a token sequence: punctuation, key names, the digits of a   *)
(* number, and the characters of a string as one token between quotes.     *)
(***************************************************************************)
Quote == "\""

JsonKey(k) == <<Quote, k, Quote, ":">>
JsonString(s) == <<Quote, s, Quote>>
\* A number that is not finite is written as null.
JsonNumber(n) == IF n = NaN \/ n = JsNull THEN <<"null">> ELSE NumberToString(n)

\* Own properties in creation order: that of the form group's controls.
JsonObject(p) ==
    <<"{">> \o JsonKey("id") \o JsonNumber(p.id)
    \o <<",">> \o JsonKey("policyNumber") \o JsonString(p.policyNumber)
    \o <<",">> \o JsonKey("customerName") \o JsonString(p.customerName)
    \o <<",">> \o JsonKey("startDate") \o JsonString(p.startDate)
    \o <<",">> \o JsonKey("endDate") \o JsonString(p.endDate)
    \o <<",">> \o JsonKey("premiumAmount") \o JsonNumber(p.premiumAmount)
    \o <<"}">>

RECURSIVE JsonElements(_, _)
JsonElements(ps, i) ==
    IF i > Len(ps) THEN <<>>
    ELSE (IF i > 1 THEN <<",">> ELSE <<>>) \o JsonObject(ps[i])
         \o JsonElements(ps, i + 1)

JsonStringify(ps) == <<"[">> \o JsonElements(ps, 1) \o <<"]">>

\* The members of a policy object: name and kind of value, in order.
Members ==
    << <<"id", "number">>, <<"policyNumber", "string">>,
       <<"customerName", "string">>, <<"startDate", "string">>,
       <<"endDate", "string">>, <<"premiumAmount", "number">> >>

Token(t, i) == IF i >= 1 /\ i <= Len(t) THEN t[i] ELSE "<eof>"

\* Whether the tokens of lit stand at position i of t.
At(t, i, lit) ==
    /\ i + Len(lit) - 1 <= Len(t)
    /\ \A k \in 1..Len(lit) : t[i + k - 1] = lit[k]

PolicyOf(v) ==
    [id |-> v[1][1], policyNumber |-> v[2][1], customerName |-> v[3][1],
     startDate |-> v[4][1], endDate |-> v[5][1], premiumAmount |-> v[6][1]]

\* The parser reads the text left to right.  Its state: the position i, what
\* it expects there (mode), the member k it is in, the values of the members
\* of the object read so far (vals), the objects completed (items), and the
\* number being read (num, its sign and its count of digits).
ParserStart ==
    [i |-> 1, mode |-> "array", k |-> 1, vals |-> <<>>, items |-> <<>>,
     num |-> 0, neg |-> FALSE, digits |-> 0]

ParserStep(t, s) ==
    LET c == Token(t, s.i)
        fail == [s EXCEPT !.mode = "error"]
    IN  CASE s.mode = "array" ->
               IF c = "[" THEN [s EXCEPT !.mode = "first", !.i = s.i + 1] ELSE fail
          [] s.mode = "first" ->
               IF c = "]" THEN [s EXCEPT !.mode = "end", !.i = s.i + 1]
               ELSE IF c = "{" THEN [s EXCEPT !.mode = "key", !.k = 1, !.i = s.i + 1,
                                              !.vals = <<>>]
               ELSE fail
          [] s.mode = "key" ->
               IF At(t, s.i, JsonKey(Members[s.k][1]))
               THEN [s EXCEPT !.mode = Members[s.k][2], !.i = s.i + 4]
               ELSE fail
          [] s.mode = "string" ->
               IF At(t, s.i, <<Quote>>) /\ At(t, s.i + 2, <<Quote>>)
               THEN [s EXCEPT !.mode = "member", !.i = s.i + 3,
                              !.vals = Append(s.vals, <<t[s.i + 1]>>)]
               ELSE fail
          [] s.mode = "number" ->
               IF c = "null"
               THEN [s EXCEPT !.mode = "member", !.i = s.i + 1,
                              !.vals = Append(s.vals, <<JsNull>>)]
               ELSE [s EXCEPT !.mode = "digits", !.num = 0, !.digits = 0,
                              !.neg = (c = "-"),
                              !.i = IF c = "-" THEN s.i + 1 ELSE s.i]
          [] s.mode = "digits" ->
               IF IsDigit(c)
               THEN [s EXCEPT !.num = s.num * 10 + DigitValue(c),
                              !.digits = s.digits + 1, !.i = s.i + 1]
               ELSE IF s.digits = 0 THEN fail
               ELSE [s EXCEPT !.mode = "member",
                              !.vals = Append(s.vals,
                                   <<IF s.neg THEN 0 - s.num ELSE s.num>>)]
          [] s.mode = "member" ->
               IF s.k < Len(Members)
               THEN IF c = "," THEN [s EXCEPT !.mode = "key", !.k = s.k + 1,
                                              !.i = s.i + 1]
                    ELSE fail
               ELSE IF c = "}" THEN [s EXCEPT !.mode = "element", !.i = s.i + 1,
                                              !.items = Append(s.items, PolicyOf(s.vals))]
                    ELSE fail
          [] s.mode = "element" ->
               IF c = "]" THEN [s EXCEPT !.mode = "end", !.i = s.i + 1]
               ELSE IF c = "," /\ Token(t, s.i + 1) = "{"
               THEN [s EXCEPT !.mode = "key", !.k = 1, !.i = s.i + 2, !.vals = <<>>]
               ELSE fail
          [] OTHER -> fail

RECURSIVE ParserRun(_, _)
ParserRun(t, s) ==
    IF s.mode \in {"end", "error"} THEN s ELSE ParserRun(t, ParserStep(t, s))

\* JSON.parse of a text that is an array of policy objects; ok is FALSE
\* where JSON.parse throws a SyntaxError.
JsonParse(t) ==
    LET s == ParserRun(t, ParserStart)
        ok == s.mode = "end" /\ s.i = Len(t) + 1
    IN  [ok |-> ok, value |-> IF ok THEN s.items ELSE <<>>]

(***************************************************************************)
(* The store.                                                              *)
(***************************************************************************)
VARIABLES
    storage,    \* localStorage: the keys present, each with its text
    policies,   \* the value of policiesSignal
    nextId,     \* the next-id counter
    dirty,      \* the auto-save effect is scheduled and has not run yet
    lastCall,   \* the latest store call: its name, its argument, whether it
                \* threw, and the name of the call before it
    calls,      \* number of store calls made, constructions included
    assigned,   \* the ids given out by add, in order
    clearedAt,  \* Len(assigned) when clear was last called
    form,       \* the PolicyFormComponent of the page, when its route is shown
    dialog,     \* the latest click on a Delete button of the list and the
                \* answer to its confirm dialog
    tab,        \* which page of the origin the variables above belong to
    other       \* the store and form of the other page of the origin

vars == <<storage, policies, nextId, dirty, lastCall, calls, assigned, clearedAt,
          form, dialog, tab, other>>

\* localStorage with no key present.
EmptyStorage == [k \in {} |-> <<>>]

\* if (stored): getItem gave a string (not null) that is not empty.
Truthy(st, k) == k \in DOMAIN st /\ st[k] # <<>>

SetItem(st, k, text) == [x \in DOMAIN st \cup {k} |-> IF x = k THEN text ELSE st[x]]
RemoveItem(st, k) == [x \in DOMAIN st \ {k} |-> st[x]]

\* Variant of loadFromLocalStorage: the counter key is not read.
loadPoliciesOnly(st) ==
    LET parsed == IF Truthy(st, STORAGE_KEY) THEN JsonParse(st[STORAGE_KEY])
                  ELSE [ok |-> TRUE, value |-> <<>>]
    IN  [policies |-> parsed.value, nextId |-> 1]

\* Variant of saveToLocalStorage: the counter is written before the
\* collection and with the value it had at the previous record.
saveStaleCounter(st, ps, n) ==
    SetItem(SetItem(st, STORAGE_KEY, JsonStringify(ps)),
            NEXT_ID_KEY, NumberToString(IF ps = <<>> THEN n ELSE n - 1))

\* Variant of loadFromLocalStorage: without a stored counter, the counter
\* is set past the ids of the loaded records (past the last of them, the
\* records being stored in the order of their ids).
loadDerivingCounter(st) ==
    LET parsed == IF Truthy(st, STORAGE_KEY) THEN JsonParse(st[STORAGE_KEY])
                  ELSE [ok |-> TRUE, value |-> <<>>]
    IN  IF ~parsed.ok THEN [policies |-> <<>>, nextId |-> 1]
        ELSE [policies |-> parsed.value,
              nextId |-> IF Truthy(st, NEXT_ID_KEY) THEN ParseInt(st[NEXT_ID_KEY])
                         ELSE IF parsed.value = <<>> THEN 1
                         ELSE Increment(parsed.value[Len(parsed.value)].id)]

\* Variant of loadFromLocalStorage: the counter starts at 0, not at 1.
loadCountingFromZero(st) ==
    LET parsed == IF Truthy(st, STORAGE_KEY) THEN JsonParse(st[STORAGE_KEY])
                  ELSE [ok |-> TRUE, value |-> <<>>]
    IN  IF ~parsed.ok THEN [policies |-> <<>>, nextId |-> 0]
        ELSE [policies |-> parsed.value,
              nextId |-> IF Truthy(st, NEXT_ID_KEY) THEN ParseInt(st[NEXT_ID_KEY])
                         ELSE 0]

\* The collection and counter a store has after loadFromLocalStorage has run
\* on storage st, starting from the field initializers ([] and 1).  A
\* SyntaxError of JSON.parse is caught after neither field was assigned.
loadFromLocalStorage(st) ==
    LET hasPolicies == Truthy(st, STORAGE_KEY)
        hasNextId == Truthy(st, NEXT_ID_KEY)
        parsed == IF hasPolicies THEN JsonParse(st[STORAGE_KEY])
                  ELSE [ok |-> TRUE, value |-> <<>>]
    IN  IF ~parsed.ok THEN [policies |-> <<>>, nextId |-> 1]
        ELSE [policies |-> parsed.value,
              nextId |-> IF hasNextId THEN ParseInt(st[NEXT_ID_KEY]) ELSE 1]

\* Variant of saveToLocalStorage: nothing is written when the stored counter
\* is ahead of the instance's, as after an add made by another instance.
saveUnlessBehind(st, ps, n) ==
    IF Truthy(st, NEXT_ID_KEY) /\ ParseInt(st[NEXT_ID_KEY]) > n THEN st
    ELSE SetItem(SetItem(st, STORAGE_KEY, JsonStringify(ps)),
                 NEXT_ID_KEY, NumberToString(n))

\* localStorage after saveToLocalStorage(ps) with the counter at n.
saveToLocalStorage(st, ps, n) ==
    SetItem(SetItem(st, STORAGE_KEY, JsonStringify(ps)),
            NEXT_ID_KEY, NumberToString(n))

getAll == policies

Ids(ps) == [i \in 1..Len(ps) |-> ps[i].id]

\* Variant of getById: the id is taken as the position in the array.
getByIdAt(id) ==
    IF id \in 1..Len(policies) THEN [found |-> TRUE, policy |-> policies[id]]
    ELSE [found |-> FALSE, policy |-> NoPolicy]

\* Array.prototype.find: the first match, or undefined (found = FALSE).
getById(id) ==
    LET hits == { i \in 1..Len(policies) : StrictEquals(policies[i].id, id) }
    IN  IF hits = {} THEN [found |-> FALSE, policy |-> NoPolicy]
        ELSE [found |-> TRUE,
              policy |-> policies[CHOOSE i \in hits : \A j \in hits : i <= j]]

\* The record of a call that returned normally; saved tells whether no run
\* of the effect was pending when the call was made.
Call(op, policy, id) ==
    [op |-> op, policy |-> policy, id |-> id, threw |-> FALSE, prev |-> lastCall.op,
     saved |-> ~dirty]

\* The initial values of the form group's controls.
FormBlank ==
    [id |-> 1, policyNumber |-> "", customerName |-> "", startDate |-> "",
     endDate |-> "", premiumAmount |-> 0]

\* No form on the page: the list is shown.  outcome is what save() did
\* with the form as it stands, or with the form that was shown last; route
\* is the id parameter of the form's route, 0 for none.
NoForm(outcome) ==
    [open |-> FALSE, isEdit |-> FALSE, value |-> FormBlank, outcome |-> outcome,
     route |-> 0]

\* The latest confirm() dialog: none yet.
NoDialog == [id |-> 0, shown |-> FALSE, accepted |-> FALSE]

\* The other page is not open.
NoTab ==
    [alive |-> FALSE, policies |-> <<>>, nextId |-> 1, assigned |-> <<>>,
     clearedAt |-> 0, form |-> NoForm("none")]

\* The list page with no click made yet, and no second page.
InitPage ==
    /\ form = NoForm("none")
    /\ dialog = NoDialog
    /\ tab = 1
    /\ other = NoTab

\* A step of the store alone.
Idle == UNCHANGED <<form, dialog, tab, other>>

\* new PolicyService() on an empty localStorage: the fields are loaded and
\* the effect is created, which schedules its first run.
Init ==
    /\ storage = EmptyStorage
    /\ policies = loadFromLocalStorage(EmptyStorage).policies
    /\ nextId = loadFromLocalStorage(EmptyStorage).nextId
    /\ dirty = TRUE
    /\ lastCall = [op |-> "new", policy |-> NoPolicy, id |-> 0, threw |-> FALSE,
                   prev |-> "none", saved |-> FALSE]
    /\ calls = 0
    /\ assigned = <<>>
    /\ clearedAt = 0
    /\ InitPage

\* Variant of Appended: the copy is put before the others (unshift).
AppendedInFront(ps, policy, id) == <<[policy EXCEPT !.id = id]>> \o ps

\* Variant of Appended: the copy keeps the id the caller passed.
AppendedKeepingId(ps, policy, id) == Append(ps, policy)

\* [...policies, {...policy}] with policy.id already set to id.
Appended(ps, policy, id) == Append(ps, [policy EXCEPT !.id = id])

\* Variant of add: a record with no policy number is refused with an
\* error.
addRefusingBlank(policy) ==
    /\ calls < MaxCalls
    /\ policies' = IF policy.policyNumber = "" THEN policies
                   ELSE Appended(policies, policy, nextId)
    /\ nextId' = IF policy.policyNumber = "" THEN nextId ELSE Increment(nextId)
    /\ dirty' = (dirty \/ policy.policyNumber # "")
    /\ lastCall' = [Call("add", policy, policy.id)
                        EXCEPT !.threw = (policy.policyNumber = "")]
    /\ calls' = calls + 1
    /\ assigned' = IF policy.policyNumber = "" THEN assigned
                   ELSE Append(assigned, nextId)
    /\ UNCHANGED <<storage, clearedAt>>

\* Variant of add: the collection and counter are read from the storage
\* again before the record is appended.
addReloading(policy) ==
    /\ calls < MaxCalls
    /\ policies' = Appended(loadFromLocalStorage(storage).policies, policy,
                            loadFromLocalStorage(storage).nextId)
    /\ nextId' = Increment(loadFromLocalStorage(storage).nextId)
    /\ dirty' = TRUE
    /\ lastCall' = Call("add", policy, policy.id)
    /\ calls' = calls + 1
    /\ assigned' = Append(assigned, loadFromLocalStorage(storage).nextId)
    /\ UNCHANGED <<storage, clearedAt>>

add(policy) ==
    /\ calls < MaxCalls
    /\ policies' = Appended(policies, policy, nextId)
    /\ nextId' = Increment(nextId)
    /\ dirty' = TRUE
    /\ lastCall' = Call("add", policy, policy.id)
    /\ calls' = calls + 1
    /\ assigned' = Append(assigned, nextId)
    /\ UNCHANGED <<storage, clearedAt>>

\* Variant of Replaced: the record of that id is removed and the given
\* one pushed at the end.
ReplacedAtEnd(ps, policy) ==
    IF \E i \in 1..Len(ps) : StrictEquals(ps[i].id, policy.id)
    THEN Append(SelectSeq(ps, LAMBDA p : ~StrictEquals(p.id, policy.id)), policy)
    ELSE ps

\* Variant of Replaced: the test of the map callback is inverted.
ReplacedInverted(ps, policy) ==
    [i \in 1..Len(ps) |->
        IF ~StrictEquals(ps[i].id, policy.id) THEN policy ELSE ps[i]]

\* policies.map(p => p.id === policy.id ? {...policy} : p)
Replaced(ps, policy) ==
    [i \in 1..Len(ps) |->
        IF StrictEquals(ps[i].id, policy.id) THEN policy ELSE ps[i]]

\* Variant of update: the counter advances as it does in add.
updateAdvancingCounter(policy) ==
    /\ calls < MaxCalls
    /\ policies' = Replaced(policies, policy)
    /\ nextId' = Increment(nextId)
    /\ dirty' = TRUE
    /\ lastCall' = Call("update", policy, policy.id)
    /\ calls' = calls + 1
    /\ UNCHANGED <<storage, assigned, clearedAt>>

update(policy) ==
    /\ calls < MaxCalls
    /\ policies' = Replaced(policies, policy)
    /\ dirty' = TRUE
    /\ lastCall' = Call("update", policy, policy.id)
    /\ calls' = calls + 1
    /\ UNCHANGED <<storage, nextId, assigned, clearedAt>>

\* Variant of Filtered: splice(findIndex(...), 1), which removes the last
\* element when no element has the id (index -1).
FilteredBySplice(ps, id) ==
    LET hits == { i \in 1..Len(ps) : StrictEquals(ps[i].id, id) }
        at == IF hits = {} THEN Len(ps) ELSE CHOOSE i \in hits : \A j \in hits : i <= j
    IN  [i \in 1..(IF ps = <<>> THEN 0 ELSE Len(ps) - 1) |->
            IF i < at THEN ps[i] ELSE ps[i + 1]]

\* Variant of Filtered: splice(findIndex(...)) with no count, which removes
\* the record of that id and every record after it.
FilteredToEnd(ps, id) ==
    LET hits == { i \in 1..Len(ps) : StrictEquals(ps[i].id, id) }
    IN  IF hits = {} THEN ps
        ELSE SubSeq(ps, 1, (CHOOSE i \in hits : \A j \in hits : i <= j) - 1)

\* policies.filter(p => p.id !== id)
Filtered(ps, id) == SelectSeq(ps, LAMBDA p : ~StrictEquals(p.id, id))

\* Variant of delete: the id of a removed record is given back to the
\* counter when it was the latest one.
deleteReusingId(id) ==
    /\ calls < MaxCalls
    /\ policies' = Filtered(policies, id)
    /\ nextId' = IF id = nextId - 1 /\ policies' # policies THEN id ELSE nextId
    /\ dirty' = TRUE
    /\ lastCall' = Call("delete", NoPolicy, id)
    /\ calls' = calls + 1
    /\ UNCHANGED <<storage, assigned, clearedAt>>

delete(id) ==
    /\ calls < MaxCalls
    /\ policies' = Filtered(policies, id)
    /\ dirty' = TRUE
    /\ lastCall' = Call("delete", NoPolicy, id)
    /\ calls' = calls + 1
    /\ UNCHANGED <<storage, nextId, assigned, clearedAt>>

\* Variant of clear: the counter is not reset.
clearKeepingCounter ==
    /\ calls < MaxCalls
    /\ policies' = <<>>
    /\ storage' = RemoveItem(RemoveItem(storage, STORAGE_KEY), NEXT_ID_KEY)
    /\ dirty' = TRUE
    /\ lastCall' = Call("clear", NoPolicy, 0)
    /\ calls' = calls + 1
    /\ clearedAt' = Len(assigned)
    /\ UNCHANGED <<nextId, assigned>>

\* Variant of clear: the signal is not written, only the counter and the
\* storage are reset.
clearCounterOnly ==
    /\ calls < MaxCalls
    /\ nextId' = 1
    /\ storage' = RemoveItem(RemoveItem(storage, STORAGE_KEY), NEXT_ID_KEY)
    /\ lastCall' = Call("clear", NoPolicy, 0)
    /\ calls' = calls + 1
    /\ clearedAt' = Len(assigned)
    /\ UNCHANGED <<policies, dirty, assigned>>

\* Variant of clear: the counter is set from the length of the collection,
\* read before the collection is emptied.
clearCountingRecords ==
    /\ calls < MaxCalls
    /\ policies' = <<>>
    /\ nextId' = Len(policies) + 1
    /\ storage' = RemoveItem(RemoveItem(storage, STORAGE_KEY), NEXT_ID_KEY)
    /\ dirty' = TRUE
    /\ lastCall' = Call("clear", NoPolicy, 0)
    /\ calls' = calls + 1
    /\ clearedAt' = Len(assigned)
    /\ UNCHANGED assigned

clear ==
    /\ calls < MaxCalls
    /\ policies' = <<>>
    /\ nextId' = 1
    /\ storage' = RemoveItem(RemoveItem(storage, STORAGE_KEY), NEXT_ID_KEY)
    /\ dirty' = TRUE
    /\ lastCall' = Call("clear", NoPolicy, 0)
    /\ calls' = calls + 1
    /\ clearedAt' = Len(assigned)
    /\ UNCHANGED assigned

\* Variant of effect: the signal is not read inside the effect, so writes
\* of it schedule no run; only the run that follows construction happens.
effectUntracked ==
    /\ dirty
    /\ calls = 0
    /\ storage' = saveToLocalStorage(storage, policies, nextId)
    /\ dirty' = FALSE
    /\ UNCHANGED <<policies, nextId, lastCall, calls, assigned, clearedAt>>

\* Variant of effect: the counter key is written only when it is absent.
effectCounterOnce ==
    /\ dirty
    /\ storage' = IF NEXT_ID_KEY \in DOMAIN storage
                  THEN SetItem(storage, STORAGE_KEY, JsonStringify(policies))
                  ELSE saveToLocalStorage(storage, policies, nextId)
    /\ dirty' = FALSE
    /\ UNCHANGED <<policies, nextId, lastCall, calls, assigned, clearedAt>>

\* The effect of the constructor runs: it reads policiesSignal and saves.
\* It is scheduled by every write of the signal (set and update always
\* store a new array) and runs after the code that wrote it has returned.
effect ==
    /\ dirty
    /\ storage' = saveToLocalStorage(storage, policies, nextId)
    /\ dirty' = FALSE
    /\ UNCHANGED <<policies, nextId, lastCall, calls, assigned, clearedAt>>

\* A caller calls getById(id); the call record holds what it returned,
\* NoPolicy standing for undefined.  The signal is read, not written, so no
\* run of the effect is scheduled.
callGetById(id) ==
    /\ calls < MaxCalls
    /\ lastCall' = Call("getById", getById(id).policy, id)
    /\ calls' = calls + 1
    /\ UNCHANGED <<storage, policies, nextId, dirty, assigned, clearedAt>>

\* The effect runs and setItem number k of saveToLocalStorage throws (the
\* quota is exceeded, or the storage refuses writes): what was set before it
\* stays set, the rest of the try block is skipped, the catch logs.  The
\* effect has run, so nothing schedules it again.
effectFailing(k) ==
    /\ dirty
    /\ storage' = IF k = 1 THEN storage
                  ELSE SetItem(storage, STORAGE_KEY, JsonStringify(policies))
    /\ dirty' = FALSE
    /\ UNCHANGED <<policies, nextId, lastCall, calls, assigned, clearedAt>>

\* The page is loaded again (or another page of the origin is opened and
\* looked at instead): a new PolicyService is constructed on the storage as
\* it is.  What the old instance had not saved is gone with it.
constructor ==
    /\ calls < MaxCalls
    /\ policies' = loadFromLocalStorage(storage).policies
    /\ nextId' = loadFromLocalStorage(storage).nextId
    /\ dirty' = TRUE
    /\ lastCall' = Call("new", NoPolicy, 0)
    /\ calls' = calls + 1
    /\ assigned' = <<>>
    /\ clearedAt' = 0
    /\ UNCHANGED storage

(***************************************************************************)
(* The components.  A click is handled after the effects scheduled by the  *)
(* click before it have run, so every handler starts with nothing to save. *)
(***************************************************************************)
\* Validators.required: the empty string and null are invalid, 0 is not.
\* Variant of FormInvalid: the number control is not looked at.
FormInvalidStringsOnly(v) ==
    \/ v.policyNumber = ""
    \/ v.customerName = ""
    \/ v.startDate = ""
    \/ v.endDate = ""

\* form.invalid: some control with Validators.required has no value.  The
\* id control has no validator.
FormInvalid(v) ==
    \/ v.policyNumber = ""
    \/ v.customerName = ""
    \/ v.startDate = ""
    \/ v.endDate = ""
    \/ v.premiumAmount = JsNull

\* What the user leaves in the five fields: the values of the editing test,
\* and the first of them with one field emptied (a number input that is
\* emptied holds null).
FormInputs ==
    LET d == CHOOSE p \in Payloads : p.premiumAmount = 1500
    IN  Payloads
        \cup { [d EXCEPT ![f] = ""] :
                 f \in {"policyNumber", "customerName", "startDate", "endDate"} }
        \cup { [d EXCEPT !.premiumAmount = JsNull] }

\* The ids that occur in a collection.
IdSet(ps) == { ps[i].id : i \in 1..Len(ps) }

\* The ids of the rows of the list, each with its own Delete button.
Listed == IdSet(policies)

\* Variant of listDelete: the answer to confirm() is not looked at.
listDeleteUnconfirmed(id, accept) ==
    /\ ~form.open
    /\ ~dirty
    /\ IF id = 0
       THEN UNCHANGED <<storage, policies, nextId, dirty, lastCall, calls,
                        assigned, clearedAt, dialog>>
       ELSE /\ dialog' = [id |-> id, shown |-> TRUE, accepted |-> accept]
            /\ delete(id)
    /\ UNCHANGED <<form, tab, other>>

\* PoliciesListComponent.delete(id), the list being shown: nothing for a
\* falsy id (0 here); else confirm() is shown and answered, and ps.delete(id)
\* is called when it was accepted.
listDelete(id, accept) ==
    /\ ~form.open
    /\ ~dirty
    /\ IF id = 0
       THEN UNCHANGED <<storage, policies, nextId, dirty, lastCall, calls,
                        assigned, clearedAt, dialog>>
       ELSE /\ dialog' = [id |-> id, shown |-> TRUE, accepted |-> accept]
            /\ IF accept THEN delete(id)
               ELSE UNCHANGED <<storage, policies, nextId, dirty, lastCall,
                                calls, assigned, clearedAt>>
    /\ UNCHANGED <<form, tab, other>>

\* Variant of PolicyFormComponent: isEdit is set whenever the route has an
\* id, found or not.
PolicyFormComponentEditById(id) ==
    /\ ~form.open
    /\ ~dirty
    /\ form' = [open |-> TRUE, isEdit |-> (id # 0),
                value |-> IF id # 0 /\ getById(id).found THEN getById(id).policy
                          ELSE FormBlank,
                outcome |-> "none", route |-> id]
    /\ UNCHANGED <<storage, policies, nextId, dirty, lastCall, calls, assigned,
                   clearedAt, dialog, tab, other>>

\* The constructor of PolicyFormComponent on the route policies/new (id = 0)
\* or policies/:id/edit: the form is patched with the record of that id and
\* isEdit set when getById finds one.
PolicyFormComponent(id) ==
    /\ ~form.open
    /\ ~dirty
    /\ form' = IF id # 0 /\ getById(id).found
               THEN [open |-> TRUE, isEdit |-> TRUE, value |-> getById(id).policy,
                     outcome |-> "none", route |-> id]
               ELSE [open |-> TRUE, isEdit |-> FALSE, value |-> FormBlank,
                     outcome |-> "none", route |-> id]
    /\ UNCHANGED <<storage, policies, nextId, dirty, lastCall, calls, assigned,
                   clearedAt, dialog, tab, other>>

\* The user leaves d in the five fields of the form; the id control has no
\* field.
input(d) ==
    /\ form.open
    /\ ~dirty
    /\ form' = [form EXCEPT !.value = InsurancePolicy(form.value.id, d),
                            !.outcome = "none"]
    /\ UNCHANGED <<storage, policies, nextId, dirty, lastCall, calls, assigned,
                   clearedAt, dialog, tab, other>>

\* PolicyFormComponent.save(): returns at once when the form is invalid;
\* else calls update or add with the form's value and navigates to the list.
save ==
    /\ form.open
    /\ ~dirty
    /\ IF FormInvalid(form.value)
       THEN /\ form' = [form EXCEPT !.outcome = "rejected"]
            /\ UNCHANGED <<storage, policies, nextId, dirty, lastCall, calls,
                           assigned, clearedAt>>
       ELSE /\ IF form.isEdit THEN update(form.value) ELSE add(form.value)
            /\ form' = NoForm("saved")
    /\ UNCHANGED <<dialog, tab, other>>

\* The page in the background, as the focused one leaves it.
Background ==
    [alive |-> TRUE, policies |-> policies, nextId |-> nextId,
     assigned |-> assigned, clearedAt |-> clearedAt, form |-> form]

\* A second page of the origin is opened and focused: its PolicyService is
\* constructed on the storage as it is, and it shows the list.
openTab ==
    /\ ~other.alive
    /\ ~dirty
    /\ constructor
    /\ other' = Background
    /\ form' = NoForm("none")
    /\ tab' = 2
    /\ UNCHANGED dialog

\* The user goes to the other page.  Each page keeps its own PolicyService
\* and component; the storage is the one of the origin.
switchTab ==
    /\ other.alive
    /\ ~dirty
    /\ policies' = other.policies
    /\ nextId' = other.nextId
    /\ assigned' = other.assigned
    /\ clearedAt' = other.clearedAt
    /\ form' = other.form
    /\ other' = Background
    /\ tab' = 3 - tab
    /\ UNCHANGED <<storage, dirty, lastCall, calls, dialog>>

\* One page, used through the list and the form, which is reached by a
\* link or by its address, with any id.
NextUI ==
    \/ \E id \in {0} \cup Listed, accept \in BOOLEAN :
            calls < MaxPageCalls /\ listDelete(id, accept)
    \/ \E id \in {0} \cup CallerIds : PolicyFormComponent(id)
    \/ \E d \in FormInputs : input(d)
    \/ calls < MaxPageCalls /\ save
    \/ effect /\ Idle

SpecUI == Init /\ [][NextUI]_vars

\* Two pages of the origin, each used through the list and the form, which
\* is reached by the links of the list.
NextTabs ==
    \/ \E id \in {0} \cup Listed, accept \in BOOLEAN :
            calls < MaxPageCalls /\ listDelete(id, accept)
    \/ \E id \in {0} \cup Listed : PolicyFormComponent(id)
    \/ \E d \in Payloads : input(d)
    \/ calls < MaxPageCalls /\ save
    \/ calls < MaxPageCalls /\ openTab
    \/ switchTab
    \/ effect /\ Idle

SpecTabs == Init /\ [][NextTabs]_vars

\* One store, constructed on an empty localStorage.
Next ==
    \/ \E policy \in CallerPolicies : add(policy) /\ Idle
    \/ \E policy \in CallerPolicies : update(policy) /\ Idle
    \/ \E id \in CallerIds : delete(id) /\ Idle
    \/ clear /\ Idle
    \/ effect /\ Idle

Spec == Init /\ [][Next]_vars

\* The same without clear.
NextNoClear ==
    \/ \E policy \in CallerPolicies : add(policy) /\ Idle
    \/ \E policy \in CallerPolicies : update(policy) /\ Idle
    \/ \E id \in CallerIds : delete(id) /\ Idle
    \/ effect /\ Idle

SpecNoClear == Init /\ [][NextNoClear]_vars

\* The store and its successors after reloads of the page.
NextReload ==
    \/ \E policy \in CallerPolicies : add(policy) /\ Idle
    \/ \E policy \in CallerPolicies : update(policy) /\ Idle
    \/ \E id \in CallerIds : delete(id) /\ Idle
    \/ clear /\ Idle
    \/ effect /\ Idle
    \/ constructor /\ Idle

SpecReload == Init /\ [][NextReload]_vars

(***************************************************************************)
(* The store constructed on what localStorage may hold.                    *)
(***************************************************************************)
\* Texts of the collection key: that of two saved records, and a text cut
\* off after its second token, which JSON.parse rejects.
StoredPolicies ==
    { JsonStringify(<< InsurancePolicy(1, CHOOSE d \in Payloads : d.premiumAmount = 1500),
                       InsurancePolicy(2, CHOOSE d \in Payloads : d.premiumAmount = 2500) >>),
      <<"[", "{">> }

\* Texts of the counter key: a saved counter, and a text with no digit.
StoredNextIds == { NumberToString(3), <<"a", "b", "c">> }

\* Every combination of the two keys, each absent or with one of its texts.
Media ==
    { st \in UNION { [ks -> StoredPolicies \cup StoredNextIds] : ks \in SUBSET Keys } :
        /\ STORAGE_KEY \in DOMAIN st => st[STORAGE_KEY] \in StoredPolicies
        /\ NEXT_ID_KEY \in DOMAIN st => st[NEXT_ID_KEY] \in StoredNextIds }

\* new PolicyService() on any of these contents.
InitMedium ==
    /\ storage \in Media
    /\ policies = loadFromLocalStorage(storage).policies
    /\ nextId = loadFromLocalStorage(storage).nextId
    /\ dirty = TRUE
    /\ lastCall = [op |-> "new", policy |-> NoPolicy, id |-> 0, threw |-> FALSE,
                   prev |-> "none", saved |-> FALSE]
    /\ calls = 0
    /\ assigned = <<>>
    /\ clearedAt = 0
    /\ InitPage

NextMedium ==
    \/ \E policy \in CallerPolicies :
            calls < MaxMediumCalls /\ add(policy) /\ Idle
    \/ \E policy \in CallerPolicies :
            calls < MaxMediumCalls /\ update(policy) /\ Idle
    \/ \E id \in CallerIds : calls < MaxMediumCalls /\ delete(id) /\ Idle
    \/ calls < MaxMediumCalls /\ clear /\ Idle
    \/ effect /\ Idle

SpecMedium == InitMedium /\ [][NextMedium]_vars

(***************************************************************************)
(* The store on a localStorage whose setItem may throw.                    *)
(***************************************************************************)
NextWriteFail ==
    \/ \E policy \in CallerPolicies :
            calls < MaxMediumCalls /\ add(policy) /\ Idle
    \/ \E policy \in CallerPolicies :
            calls < MaxMediumCalls /\ update(policy) /\ Idle
    \/ \E id \in CallerIds : calls < MaxMediumCalls /\ delete(id) /\ Idle
    \/ calls < MaxMediumCalls /\ clear /\ Idle
    \/ effect /\ Idle
    \/ \E k \in 1..2 : effectFailing(k) /\ Idle

SpecWriteFail == Init /\ [][NextWriteFail]_vars

(***************************************************************************)
(* The store with the scheduler of effects: a scheduled run of the effect  *)
(* happens once the code that wrote the signal has returned.               *)
(***************************************************************************)
NextFair ==
    \/ \E policy \in CallerPolicies :
            calls < MaxMediumCalls /\ add(policy) /\ Idle
    \/ \E policy \in CallerPolicies :
            calls < MaxMediumCalls /\ update(policy) /\ Idle
    \/ \E id \in CallerIds : calls < MaxMediumCalls /\ delete(id) /\ Idle
    \/ calls < MaxMediumCalls /\ clear /\ Idle
    \/ effect /\ Idle

SpecFair == Init /\ [][NextFair]_vars /\ WF_vars(effect /\ Idle)

(***************************************************************************)
(* The store called directly, with records no form would submit.           *)
(***************************************************************************)
\* Field values the form's validators or a reader would object to: all
\* strings empty, the end date before the start date, a negative premium.
UncheckedPayloads ==
    LET d == CHOOSE p \in Payloads : p.premiumAmount = 1500
    IN  { [policyNumber |-> "", customerName |-> "", startDate |-> "",
           endDate |-> "", premiumAmount |-> 0],
          [d EXCEPT !.startDate = "2024-12-31", !.endDate = "2024-01-01"],
          [d EXCEPT !.premiumAmount = -100] }

DirectPolicies ==
    { InsurancePolicy(id, d) : id \in CallerIds, d \in Payloads \cup UncheckedPayloads }

NextDirect ==
    \/ \E policy \in DirectPolicies :
            calls < MaxMediumCalls /\ add(policy) /\ Idle
    \/ \E policy \in DirectPolicies :
            calls < MaxMediumCalls /\ update(policy) /\ Idle
    \/ \E id \in CallerIds : calls < MaxMediumCalls /\ delete(id) /\ Idle
    \/ calls < MaxMediumCalls /\ clear /\ Idle
    \/ effect /\ Idle

SpecDirect == Init /\ [][NextDirect]_vars

(***************************************************************************)
(* The store while something else writes the storage of the origin.        *)
(***************************************************************************)
\* Another writer (another page, the developer tools) leaves the storage
\* as st.  No storage event is listened to, so the store is not told.
otherWriter(st) ==
    /\ storage' = st
    /\ UNCHANGED <<policies, nextId, dirty, lastCall, calls, assigned, clearedAt>>

NextForeign ==
    \/ \E policy \in CallerPolicies :
            calls < MaxMediumCalls /\ add(policy) /\ Idle
    \/ \E policy \in CallerPolicies :
            calls < MaxMediumCalls /\ update(policy) /\ Idle
    \/ \E id \in CallerIds : calls < MaxMediumCalls /\ delete(id) /\ Idle
    \/ calls < MaxMediumCalls /\ clear /\ Idle
    \/ effect /\ Idle
    \/ \E st \in Media : otherWriter(st) /\ Idle

SpecForeign == Init /\ [][NextForeign]_vars

(***************************************************************************)
(* The store with a caller that also reads single records.                 *)
(***************************************************************************)
NextQuery ==
    \/ \E policy \in CallerPolicies :
            calls < MaxMediumCalls /\ add(policy) /\ Idle
    \/ \E policy \in CallerPolicies :
            calls < MaxMediumCalls /\ update(policy) /\ Idle
    \/ \E id \in CallerIds : calls < MaxMediumCalls /\ delete(id) /\ Idle
    \/ calls < MaxMediumCalls /\ clear /\ Idle
    \/ \E id \in CallerIds : calls < MaxMediumCalls /\ callGetById(id) /\ Idle
    \/ effect /\ Idle

SpecQuery == Init /\ [][NextQuery]_vars

(***************************************************************************)
(* Properties.                                                             *)
(***************************************************************************)

\* A store call has just returned (the step is not a run of the effect).
Called(op) == calls' # calls /\ lastCall'.op = op

\* The two keys hold exactly the serialization of the in-memory state.
Mirrored ==
    /\ DOMAIN storage = Keys
    /\ storage[STORAGE_KEY] = JsonStringify(policies)
    /\ storage[NEXT_ID_KEY] = NumberToString(nextId)

\* C1: the ids of the records in the collection are pairwise distinct, in
\* every state reached from a fresh store by add, update, delete and clear.
C1_UniqueIds ==
    \A i, j \in 1..Len(policies) : i # j => policies[i].id # policies[j].id

\* Two records, added after a clear that followed earlier adds.
C1_Witness ==
    /\ Len(policies) = 2
    /\ clearedAt > 0
    /\ lastCall.op = "add"

\* C2 as stated: every add assigns an id greater than every id assigned by
\* an earlier add of the run, and the counter never decreases, clear
\* included among the calls.
C2_Original ==
    [][/\ nextId' >= nextId
       /\ Called("add") =>
            \A k \in 1..Len(assigned) : assigned'[Len(assigned')] > assigned[k]]_vars

\* C2 as amended: every add assigns an id greater than every id assigned
\* since the latest clear (or since construction), and the counter never
\* decreases except in clear.
C2_MonotonicSinceClear ==
    [][/\ Called("clear") \/ nextId' >= nextId
       /\ Called("add") =>
            \A k \in (clearedAt + 1)..Len(assigned) :
                assigned'[Len(assigned')] > assigned[k]]_vars

\* An add, a clear, then two adds with a delete between them.
C2_Witness ==
    /\ clearedAt = 1
    /\ assigned = <<1, 1, 2>>
    /\ Len(policies) = 1

\* C3: without clear, the k-th add assigns id k and the counter is one more
\* than the number of adds, whatever was updated or deleted in between.
C3_KthAddAssignsK ==
    /\ \A k \in 1..Len(assigned) : assigned[k] = k
    /\ nextId = Len(assigned) + 1

\* add, add, delete(1), add: ids 2 and 3 remain and the next id is 4.
C3_Witness ==
    /\ assigned = <<1, 2, 3>>
    /\ Ids(policies) = <<2, 3>>
    /\ nextId = 4
    /\ calls = 4

C5_RoundTrip ==
    ~dirty => loadFromLocalStorage(storage) = [policies |-> policies, nextId |-> nextId]

\* A store constructed by a reload that found two records, the first one
\* deleted before, and whose own first save has run.
C5_Witness ==
    /\ lastCall.op = "new"
    /\ calls > 0
    /\ Ids(policies) = <<2, 3>>
    /\ nextId = 4
    /\ ~dirty

\* C6: update or delete with an id that no record has leaves the collection
\* as it is and does not throw.
C6_NoOpOnUnknownId ==
    [][(/\ Called("update") \/ Called("delete")
        /\ ~getById(lastCall'.id).found)
       => policies' = policies /\ ~lastCall'.threw]_vars

\* An update with an unknown id on a collection of two records or more.
C6_Witness ==
    /\ lastCall.op = "update"
    /\ ~getById(lastCall.id).found
    /\ Len(policies) >= 2

\* C7: after clear, getAll is empty and the counter is 1, and an add that
\* follows gets id 1.
C7_ClearResets ==
    [][/\ Called("clear") => getAll' = <<>> /\ nextId' = 1
       /\ (lastCall.op = "clear" /\ Called("add")) => Ids(getAll') = <<1>>]_vars

\* Three adds, a clear, and an add that got id 1.
C7_Witness ==
    /\ calls = 5
    /\ clearedAt = 3
    /\ assigned = <<1, 2, 3, 1>>
    /\ Ids(policies) = <<1>>

\* C8: once clear has returned and the auto-save it scheduled has run,
\* neither key is present in the storage.
C8_KeysAbsentAfterClear ==
    (lastCall.op = "clear" /\ ~dirty) =>
        (STORAGE_KEY \notin DOMAIN storage /\ NEXT_ID_KEY \notin DOMAIN storage)

\* C9: a clear that directly follows a clear changes neither the collection,
\* the counter nor the storage.
C9_ClearIdempotent ==
    [][(lastCall.op = "clear" /\ dirty /\ Called("clear"))
       => policies' = policies /\ nextId' = nextId /\ storage' = storage]_vars

\* Two adds followed by two clears.
C9_Witness ==
    /\ lastCall.op = "clear"
    /\ lastCall.prev = "clear"
    /\ assigned = <<1, 2>>
    /\ calls = 4
    /\ dirty

\* C10: add gives the record the current counter as its id, whatever id the
\* caller passed, appends it with the other fields as passed, leaves the
\* records before it as they were and advances the counter by one.
C10_AddAppends ==
    [][Called("add") =>
        /\ Len(policies') = Len(policies) + 1
        /\ SubSeq(policies', 1, Len(policies)) = policies
        /\ policies'[Len(policies')] = [lastCall'.policy EXCEPT !.id = nextId]
        /\ nextId' = nextId + 1]_vars

\* A third record whose caller passed an id other than the one it got.
C10_Witness ==
    /\ lastCall.op = "add"
    /\ Len(policies) = 3
    /\ lastCall.policy.id # policies[3].id
    /\ lastCall.policy.id = policies[1].id

\* The text of key k is present in st and does not deserialize: JSON.parse
\* throws on the collection, parseInt gives NaN on the counter.
Undeserializable(st, k) ==
    /\ k \in DOMAIN st
    /\ IF k = STORAGE_KEY THEN ~JsonParse(st[k]).ok ELSE ParseInt(st[k]) = NaN

\* The store is as constructed: no call was made and the first run of the
\* effect has not overwritten what the constructor read.
JustConstructed == calls = 0 /\ dirty

\* C11: a store constructed on a storage with neither key has an empty
\* collection and the counter at 1, and after its first add getAll is that
\* one record with id 1.
C11_EmptyMediumDefaults ==
    /\ (JustConstructed /\ DOMAIN storage = {}) => (getAll = <<>> /\ nextId = 1)
    /\ (calls = 1 /\ lastCall.op = "add" /\ DOMAIN storage = {})
            => getAll = << [lastCall.policy EXCEPT !.id = 1] >>

\* The first add on a store constructed on a storage with neither key,
\* called with another id than 1.
C11_Witness ==
    /\ calls = 1
    /\ lastCall.op = "add"
    /\ lastCall.policy.id = 3
    /\ DOMAIN storage = {}
    /\ Len(policies) = 1

\* C12: construction never throws, and when either key does not
\* deserialize the store starts with an empty collection and the counter at 1.
C12_CorruptMeansDefaults ==
    JustConstructed =>
        /\ ~lastCall.threw
        /\ (Undeserializable(storage, STORAGE_KEY) \/ Undeserializable(storage, NEXT_ID_KEY))
                => (policies = <<>> /\ nextId = 1)

\* A step in which the effect ran and left the storage otherwise than a
\* completed saveToLocalStorage leaves it.
FailedSave ==
    /\ dirty /\ ~dirty'
    /\ calls' = calls
    /\ storage' # saveToLocalStorage(storage, policies, nextId)

\* C13: when the save after an add, update or delete fails, the collection
\* and counter in memory stay as the call left them, nothing is thrown, no
\* further save is scheduled, and a store constructed on the storage
\* afterwards loads what one constructed before the failed save would have.
C13_FailedSaveKeepsPersisted ==
    [][(FailedSave /\ lastCall.op \in {"add", "update", "delete"})
        => /\ policies' = policies /\ nextId' = nextId
           /\ ~lastCall'.threw
           /\ ~dirty'
           /\ loadFromLocalStorage(storage') = loadFromLocalStorage(storage)]_vars

\* Some control with Validators.required holds the empty string or null.
RequiredFieldEmpty(v) ==
    \/ \E f \in {"policyNumber", "customerName", "startDate", "endDate"} : v[f] = ""
    \/ v.premiumAmount = JsNull

\* A step in which the effect ran.
Saved == dirty /\ ~dirty' /\ calls' = calls

\* C14: on the list, the store's delete is called only in the step in which
\* confirm() was shown for that id and accepted; a step in which confirm()
\* was dismissed leaves collection, counter and storage as they were and
\* calls nothing.
C14_DeleteOnlyWhenConfirmed ==
    [][/\ Called("delete")
            => /\ dialog' # dialog
               /\ dialog'.shown /\ dialog'.accepted
               /\ dialog'.id = lastCall'.id
       /\ (dialog' # dialog /\ ~dialog'.accepted)
            => /\ policies' = policies /\ nextId' = nextId
               /\ storage' = storage /\ dirty' = dirty
               /\ calls' = calls]_vars

\* One of two listed policies was deleted after its dialog was accepted.
C14_Witness ==
    /\ lastCall.op = "delete"
    /\ dialog.shown /\ dialog.accepted
    /\ dialog.id = lastCall.id
    /\ Len(policies) = 1
    /\ dialog.id \notin Listed

\* C15: a save() of a form in which a required field is empty calls neither
\* add nor update and leaves collection, counter, storage and the pending
\* save as they were; no add or update is called with a record in which a
\* required field is empty.
C15_InvalidFormNeverSaved ==
    [][/\ (form.open /\ RequiredFieldEmpty(form.value)
           /\ form'.outcome # form.outcome /\ form'.outcome # "none")
            => /\ form'.open /\ form'.outcome = "rejected"
               /\ calls' = calls /\ lastCall' = lastCall
               /\ policies' = policies /\ nextId' = nextId
               /\ storage' = storage /\ dirty' = dirty
       /\ (Called("add") \/ Called("update"))
            => ~RequiredFieldEmpty(lastCall'.policy)]_vars

\* The edit form of a stored policy, its premium emptied, after save().
C15_Witness ==
    /\ form.open /\ form.isEdit
    /\ form.outcome = "rejected"
    /\ form.value.premiumAmount = JsNull
    /\ form.value.id \in Listed

\* C16: a save writes the collection and counter of the instance that
\* saves, whatever another instance has written to the storage: a store
\* constructed after it loads exactly those.
C16_SaveOverwrites ==
    [][Saved => loadFromLocalStorage(storage')
                    = [policies |-> policies, nextId |-> nextId]]_vars

\* The page in the background holds a record it added itself and has saved;
\* the focused page has added a record and saved since, and a store
\* constructed now does not load the record of the page in the background.
C16_Witness ==
    /\ other.alive
    /\ ~dirty
    /\ lastCall.op = "add"
    /\ \E i \in 1..Len(other.policies) :
          /\ \E k \in 1..Len(other.assigned) :
                 other.assigned[k] = other.policies[i].id
          /\ \A j \in 1..Len(loadFromLocalStorage(storage).policies) :
                 loadFromLocalStorage(storage).policies[j] # other.policies[i]

\* C17: when the latest calls are the delete of a policy, confirmed on one
\* page, and then the update of that policy from the edit form of the other
\* page, the form has navigated to the list and the save that follows
\* stores a collection without that policy.
C17_DeletedStaysDeleted ==
    [][(/\ Saved
        /\ lastCall.op = "update" /\ lastCall.prev = "delete"
        /\ dialog.accepted /\ dialog.id = lastCall.id
        /\ other.alive /\ lastCall.id \notin IdSet(other.policies))
        => /\ ~form.open /\ form.outcome = "saved"
           /\ lastCall.id \notin IdSet(loadFromLocalStorage(storage').policies)]_vars

\* C18: update and delete leave the counter and the storage as they are,
\* and the save that follows an update or delete made on a saved state
\* stores the counter text that was stored before.
C18_CounterUntouched ==
    [][/\ (Called("update") \/ Called("delete"))
            => nextId' = nextId /\ storage' = storage
       /\ (Saved /\ lastCall.op \in {"update", "delete"} /\ lastCall.saved)
            => /\ NEXT_ID_KEY \in DOMAIN storage
               /\ storage'[NEXT_ID_KEY] = storage[NEXT_ID_KEY]]_vars

\* The only policy, of id 1, was deleted and the deletion saved: the stored
\* counter is "2".
C18_Witness ==
    /\ lastCall.op = "delete" /\ lastCall.id = 1
    /\ lastCall.prev = "add"
    /\ lastCall.saved
    /\ ~dirty
    /\ storage = [k \in Keys |-> IF k = STORAGE_KEY THEN <<"[", "]">> ELSE <<"2">>]

\* C19: update with an id of the collection puts the given record, whole,
\* at the position of the record of that id and leaves the other records,
\* the length and the sequence of ids as they were.
C19_UpdateReplacesInPlace ==
    [][(Called("update") /\ getById(lastCall'.id).found)
        => /\ Len(policies') = Len(policies)
           /\ Ids(policies') = Ids(policies)
           /\ \E k \in 1..Len(policies) :
                 /\ policies[k].id = lastCall'.id
                 /\ policies'[k] = lastCall'.policy
                 /\ \A i \in 1..Len(policies) \ {k} : policies'[i] = policies[i]]_vars

\* The second of three records was updated to values the others do not have.
C19_Witness ==
    /\ lastCall.op = "update"
    /\ Len(policies) = 3
    /\ policies[2] = lastCall.policy
    /\ policies[1].policyNumber # policies[2].policyNumber
    /\ policies[3].policyNumber # policies[2].policyNumber

\* C20: delete with an id of the collection removes the record of that id
\* and nothing else: the records before and after it remain as they were,
\* in their order, and the collection is one shorter.
C20_DeleteRemovesOne ==
    [][(Called("delete") /\ getById(lastCall'.id).found)
        => /\ Len(policies') = Len(policies) - 1
           /\ \E k \in 1..Len(policies) :
                 /\ policies[k].id = lastCall'.id
                 /\ policies' = SubSeq(policies, 1, k - 1)
                                  \o SubSeq(policies, k + 1, Len(policies))]_vars

\* The second of three records was deleted.
C20_Witness ==
    /\ lastCall.op = "delete"
    /\ lastCall.id = 2
    /\ Ids(policies) = <<1, 3>>

\* C21: the ids of the collection, in the order getAll returns the
\* records, are strictly increasing.
C21_InsertionOrder ==
    \A i, j \in 1..Len(getAll) : i < j => getAll[i].id < getAll[j].id

\* Records 2 and 3 after a delete of the first and an update of another.
C21_Witness ==
    /\ Ids(getAll) = <<2, 3>>
    /\ lastCall.op = "update"
    /\ lastCall.prev = "add"

\* C25: the counter is at least 1 and greater than the id of every record
\* of the collection.
C25_CounterAboveIds ==
    /\ nextId >= 1
    /\ \A i \in 1..Len(policies) : policies[i].id < nextId

\* An add after a clear: the counter is 2 although ids up to 3 were
\* assigned before.
C25_Witness ==
    /\ lastCall.op = "add" /\ lastCall.prev = "clear"
    /\ Len(assigned) = 4
    /\ nextId = 2
    /\ Ids(policies) = <<1>>

\* C27: when both keys are in the storage, the stored counter is greater
\* than the id of every record of the stored collection.
C27_StoredCounterAboveStoredIds ==
    DOMAIN storage = Keys =>
        /\ JsonParse(storage[STORAGE_KEY]).ok
        /\ \A id \in IdSet(JsonParse(storage[STORAGE_KEY]).value) :
              id < ParseInt(storage[NEXT_ID_KEY])

\* The storage holds records 2 and 3 and the counter 4, while a later add
\* is not saved yet.
C27_Witness ==
    /\ DOMAIN storage = Keys
    /\ Ids(JsonParse(storage[STORAGE_KEY]).value) = <<2, 3>>
    /\ storage[NEXT_ID_KEY] = <<"4">>
    /\ dirty
    /\ nextId = 5

\* C22: a call of getById returns the record of that id when the
\* collection has one and undefined when not, does not throw, and changes
\* neither collection, counter, storage nor pending save.  What getById
\* returns for an id is set by an add that assigns the id (the argument with
\* that id) and by an update of a present id (the argument), becomes
\* undefined by a delete, and is not changed by a call about another id.
C22_GetByIdLatest ==
    [][/\ Called("getById")
            => /\ ~lastCall'.threw
               /\ policies' = policies /\ nextId' = nextId
               /\ storage' = storage /\ dirty' = dirty
               /\ IF lastCall'.id \in IdSet(policies)
                  THEN /\ lastCall'.policy.id = lastCall'.id
                       /\ \E i \in 1..Len(policies) : policies[i] = lastCall'.policy
                  ELSE lastCall'.policy = NoPolicy
       /\ Called("add")
            => \A id \in CallerIds :
                 getById(id)' = IF id = nextId
                                THEN [found |-> TRUE,
                                      policy |-> [lastCall'.policy EXCEPT !.id = id]]
                                ELSE getById(id)
       /\ Called("update")
            => \A id \in CallerIds :
                 getById(id)' = IF id = lastCall'.id /\ getById(id).found
                                THEN [found |-> TRUE, policy |-> lastCall'.policy]
                                ELSE getById(id)
       /\ Called("delete")
            => \A id \in CallerIds :
                 getById(id)' = IF id = lastCall'.id
                                THEN [found |-> FALSE, policy |-> NoPolicy]
                                ELSE getById(id)
       /\ Called("clear") => \A id \in CallerIds : ~getById(id)'.found]_vars

\* getById(1) called after an add and an update of record 1 returned the
\* record as updated, whose values differ from those added.
C22_Witness ==
    /\ lastCall.op = "getById" /\ lastCall.id = 1
    /\ lastCall.prev = "update"
    /\ lastCall.policy.id = 1
    /\ lastCall.policy.policyNumber = "POL-EDITED"
    /\ calls = 3

\* C23: a step that is not a call of the store (a save, or a write by
\* another writer) leaves collection and counter as they are, and a call
\* builds the new collection and counter from those in memory: add keeps
\* the records and appends one, update and delete keep the counter and hold
\* only records that were in memory or were passed, clear empties.
C23_StorageNotReadAgain ==
    [][/\ calls' = calls => policies' = policies /\ nextId' = nextId
       /\ Called("add")
            => /\ Len(policies') = Len(policies) + 1
               /\ SubSeq(policies', 1, Len(policies)) = policies
               /\ policies'[Len(policies')].id = nextId
               /\ nextId' = nextId + 1
       /\ Called("update")
            => /\ nextId' = nextId
               /\ Len(policies') = Len(policies)
               /\ \A i \in 1..Len(policies) :
                     policies'[i] = policies[i] \/ policies'[i] = lastCall'.policy
       /\ Called("delete")
            => /\ nextId' = nextId
               /\ \A i \in 1..Len(policies') :
                     \E j \in 1..Len(policies) : policies[j] = policies'[i]
       /\ Called("clear") => policies' = <<>> /\ nextId' = 1]_vars

\* The only record was updated after another writer stored two records; the
\* collection still has the one record, as updated.
C23_Witness ==
    /\ lastCall.op = "update" /\ lastCall.saved
    /\ dirty
    /\ STORAGE_KEY \in DOMAIN storage
    /\ JsonParse(storage[STORAGE_KEY]).ok
    /\ Len(JsonParse(storage[STORAGE_KEY]).value) = 2
    /\ policies = <<lastCall.policy>>

\* C24: add and update called with any record, one with empty strings, an
\* end date before the start date or a negative premium included, do not
\* throw; add stores the record as passed but for the id, update stores it
\* as passed in the place of the record of its id.
C24_NoValidationInStore ==
    [][/\ Called("add")
            => /\ ~lastCall'.threw
               /\ Len(policies') = Len(policies) + 1
               /\ policies'[Len(policies')] = [lastCall'.policy EXCEPT !.id = nextId]
       /\ Called("update")
            => /\ ~lastCall'.threw
               /\ \A k \in 1..Len(policies) :
                     policies[k].id = lastCall'.id => policies'[k] = lastCall'.policy]_vars

\* Record 2 was added with empty strings and record 1 then updated to a
\* negative premium.
C24_Witness ==
    /\ lastCall.op = "update"
    /\ lastCall.policy.premiumAmount = -100
    /\ Len(policies) = 2
    /\ policies[1] = lastCall.policy
    /\ policies[2].policyNumber = "" /\ policies[2].endDate = ""

\* C26: whenever a run of the effect is pending after the n-th call, a
\* state follows in which no run is pending and the storage holds the
\* collection and counter of that moment, made by n calls or more; and each
\* run of the effect stores the collection and counter as they are when it
\* runs, whatever number of calls came before it.
C26_EventuallySaved ==
    /\ \A n \in 0..MaxMediumCalls :
          (calls = n /\ dirty) ~> (calls >= n /\ ~dirty /\ Mirrored)
    /\ [][Saved => Mirrored']_vars

\* Three calls were made before the effect ran once, and it has run.
C26_Witness ==
    /\ ~dirty /\ Mirrored
    /\ calls = 3
    /\ lastCall.op = "delete" /\ lastCall.prev = "add"
    /\ ~lastCall.saved
    /\ Len(policies) = 1
    /\ nextId = 3

\* C28: a store constructed on a storage that holds records and no counter
\* key has those records and the counter at 1, and its first add appends a
\* record with id 1 whatever ids were loaded.
C28_CounterFromKeyAlone ==
    (/\ STORAGE_KEY \in DOMAIN storage
     /\ NEXT_ID_KEY \notin DOMAIN storage
     /\ JsonParse(storage[STORAGE_KEY]).ok)
    => /\ JustConstructed
            => /\ policies = JsonParse(storage[STORAGE_KEY]).value
               /\ nextId = 1
       /\ (calls = 1 /\ lastCall.op = "add")
            => policies = Append(JsonParse(storage[STORAGE_KEY]).value,
                                 [lastCall.policy EXCEPT !.id = 1])

\* Records 1 and 2 were loaded without a counter and a record was added:
\* the collection has two records of id 1.
C28_Witness ==
    /\ calls = 1 /\ lastCall.op = "add"
    /\ NEXT_ID_KEY \notin DOMAIN storage
    /\ Ids(policies) = <<1, 2, 1>>
    /\ nextId = 2

\* C29: a form that is constructed is in edit mode exactly when its route
\* has an id that getById finds, and then holds that record; a save of a
\* form whose route has an id and that is not in edit mode calls add, never
\* update, and the record it appends has the counter as id, an id no record
\* has.
C29_EditOnlyWhenFound ==
    [][/\ (~form.open /\ form'.open)
            => \E id \in {0} \cup CallerIds :
                 /\ form'.route = id
                 /\ form'.isEdit = (id # 0 /\ getById(id).found)
                 /\ form'.isEdit => form'.value = getById(id).policy
       /\ (form.open /\ form.route # 0 /\ form.route \notin Listed /\ calls' # calls)
            => /\ lastCall'.op = "add"
               /\ Len(policies') = Len(policies) + 1
               /\ policies'[Len(policies')].id = nextId
               /\ nextId \notin Listed
               /\ SubSeq(policies', 1, Len(policies)) = policies]_vars

\* Policy 1 was deleted on the list, and the form, opened on policies/1/edit
\* afterwards and filled in, is not in edit mode.
C29_Witness ==
    /\ form.open /\ ~form.isEdit
    /\ form.route = 1
    /\ lastCall.op = "delete" /\ lastCall.id = 1
    /\ 1 \notin Listed /\ Len(policies) = 1
    /\ ~FormInvalid(form.value)

=============================================================================
